---- MODULE Spec2Model ----
(***************************************************************************)
(* c10::complex (src/c10/util/complex.h): the mixed-precision complex      *)
(* value type, its member assignment / compound-assignment operators, its  *)
(* converting constructors and its free operators, as a state machine.     *)
(*                                                                         *)
(* Scalars.  The header fixes  using Half = short  (line 10), so a Half    *)
(* component is a 16-bit signed integer; float and double are IEEE-754     *)
(* binary32 / binary64, evaluated in their own format (FLT_EVAL_METHOD 0,  *)
(* no contraction), rounding to nearest, ties to even.  TLC's integers     *)
(* are 32 bits wide, so significands are kept as little-endian sequences   *)
(* of 15-bit limbs (the N... operators) and every floating-point result    *)
(* is the correctly rounded one.                                           *)
(***************************************************************************)
EXTENDS Integers, Sequences, FiniteSets, TLC

(***************************************************************************)
(* Natural numbers of any size: <<l1, ..., ln>> is SUM l_i * Base^(i-1),   *)
(* with no leading zero limb (ln # 0); zero is << >>.                      *)
(***************************************************************************)
LimbBits == 5 * 3
Base == 2 ^ LimbBits

RECURSIVE Pow2(_)
Pow2(k) == IF k = 0 THEN 1 ELSE 2 * Pow2(k - 1)

RECURSIVE NNorm(_)
NNorm(a) ==
  IF a = << >> THEN << >>
  ELSE IF a[Len(a)] = 0 THEN NNorm(SubSeq(a, 1, Len(a) - 1))
  ELSE a

NFromInt(n) ==
  IF n = 0 THEN << >>
  ELSE IF n < Base THEN << n >>
  ELSE IF n < Base * Base THEN << n % Base, n \div Base >>
  ELSE << n % Base, (n \div Base) % Base, n \div (Base * Base) >>

\* Only for a value below 2^31 (at most three limbs, the third below 2).
NToInt(a) ==
  IF a = << >> THEN 0
  ELSE IF Len(a) = 1 THEN a[1]
  ELSE IF Len(a) = 2 THEN a[1] + Base * a[2]
  ELSE a[1] + Base * a[2] + Base * Base * a[3]

RECURSIVE BitLenInt(_)
BitLenInt(n) == IF n = 0 THEN 0 ELSE 1 + BitLenInt(n \div 2)

NBitLen(a) ==
  IF a = << >> THEN 0 ELSE LimbBits * (Len(a) - 1) + BitLenInt(a[Len(a)])

RECURSIVE NCmpFrom(_, _, _)
NCmpFrom(a, b, i) ==
  IF i = 0 THEN 0
  ELSE IF a[i] < b[i] THEN -1
  ELSE IF a[i] > b[i] THEN 1
  ELSE NCmpFrom(a, b, i - 1)

\* -1, 0, 1 as a < b, a = b, a > b.
NCmp(a, b) ==
  IF Len(a) < Len(b) THEN -1
  ELSE IF Len(a) > Len(b) THEN 1
  ELSE NCmpFrom(a, b, Len(a))

RECURSIVE NAddC(_, _, _)
NAddC(a, b, c) ==
  IF a = << >> /\ b = << >> THEN (IF c = 0 THEN << >> ELSE << c >>)
  ELSE LET x == IF a = << >> THEN 0 ELSE Head(a)
           y == IF b = << >> THEN 0 ELSE Head(b)
           t == x + y + c
       IN  << t % Base >> \o
           NAddC(IF a = << >> THEN a ELSE Tail(a),
                 IF b = << >> THEN b ELSE Tail(b), t \div Base)

NAdd(a, b) == NAddC(a, b, 0)

RECURSIVE NSubB(_, _, _)
NSubB(a, b, w) ==
  IF a = << >> THEN << >>
  ELSE LET y == IF b = << >> THEN 0 ELSE Head(b)
           t == Head(a) - y - w
       IN  << IF t < 0 THEN t + Base ELSE t >> \o
           NSubB(Tail(a), IF b = << >> THEN b ELSE Tail(b),
                 IF t < 0 THEN 1 ELSE 0)

\* a - b, for a >= b.
NSub(a, b) == NNorm(NSubB(a, b, 0))

RECURSIVE NMulLimb(_, _, _)
NMulLimb(a, k, c) ==
  IF a = << >> THEN (IF c = 0 THEN << >> ELSE << c >>)
  ELSE LET t == Head(a) * k + c
       IN  << t % Base >> \o NMulLimb(Tail(a), k, t \div Base)

\* r * Base
NShiftLimb(r) == IF r = << >> THEN r ELSE << 0 >> \o r

RECURSIVE NMul(_, _)
NMul(a, b) ==
  IF a = << >> \/ b = << >> THEN << >>
  ELSE NAdd(NMulLimb(a, Head(b), 0), NShiftLimb(NMul(a, Tail(b))))

Zeros(n) == [i \in 1..n |-> 0]

\* a * 2^k
NShl(a, k) ==
  IF a = << >> THEN a
  ELSE Zeros(k \div LimbBits) \o NMulLimb(a, Pow2(k % LimbBits), 0)

\* floor(a / 2^k)
NShr(a, k) ==
  LET q == k \div LimbBits
      r == k % LimbBits
      lo == Pow2(r)
      hi == Pow2(LimbBits - r)
      n == Len(a) - q
  IN  IF n <= 0 THEN << >>
      ELSE NNorm([i \in 1..n |->
                    (a[q + i] \div lo)
                    + (IF i < n THEN (a[q + i + 1] % lo) * hi ELSE 0)])

\* bit i of a, bit 0 the least significant
NBit(a, i) ==
  LET q == i \div LimbBits
  IN  IF q >= Len(a) THEN 0 ELSE (a[q + 1] \div Pow2(i % LimbBits)) % 2

\* whether the k low bits of a are all zero
NLowZero(a, k) ==
  LET q == k \div LimbBits
  IN  /\ \A i \in 1..q : i > Len(a) \/ a[i] = 0
      /\ (q >= Len(a) \/ a[q + 1] % Pow2(k % LimbBits) = 0)

RECURSIVE TzInt(_)
TzInt(n) == IF n % 2 = 1 THEN 0 ELSE 1 + TzInt(n \div 2)

RECURSIVE NTzFrom(_, _)
NTzFrom(a, i) ==
  IF a[i] = 0 THEN LimbBits + NTzFrom(a, i + 1) ELSE TzInt(a[i])

\* the number of trailing zero bits of a # 0
NTz(a) == NTzFrom(a, 1)

\* Division by a one-limb divisor, from the top limb down: [q, r], r an integer.
RECURSIVE NDivLimb(_, _, _, _, _)
NDivLimb(a, d, i, q, r) ==
  IF i = 0 THEN [q |-> NNorm(q), r |-> NFromInt(r)]
  ELSE LET cur == r * Base + a[i]
           q2 == << cur \div d >> \o q
       IN  IF Len(q2) > 0 THEN NDivLimb(a, d, i - 1, q2, cur % d) ELSE << >>

\* One step of binary long division: the quotient q and the remainder r2 after
\* the next bit of the dividend was brought down.
NDivBit(d, q, r2) ==
  IF NCmp(r2, d) >= 0
  THEN [q |-> NAdd(NAdd(q, q), << 1 >>), r |-> NSub(r2, d)]
  ELSE [q |-> NAdd(q, q), r |-> r2]

\* Binary long division of a by d, bits i down to lo of a; t is [q, r] so far.
RECURSIVE NDivBits(_, _, _, _, _)
NDivBits(a, d, i, lo, t) ==
  IF i < lo THEN t
  ELSE IF Len(t.q) >= 0 /\ Len(t.r) >= 0
  THEN NDivBits(a, d, i - 1, lo,
                NDivBit(d, t.q, NAdd(NAdd(t.r, t.r), NFromInt(NBit(a, i)))))
  ELSE t

\* The same, one limb of a at a time, from limb j down.
RECURSIVE NDivLong(_, _, _, _)
NDivLong(a, d, j, t) ==
  IF j = 0 THEN t
  ELSE IF Len(t.q) >= 0
  THEN NDivLong(a, d, j - 1,
                NDivBits(a, d, LimbBits * j - 1, LimbBits * (j - 1), t))
  ELSE t

\* [q |-> floor(a / d), r |-> a mod d], for d # 0
NDivMod(a, d) ==
  IF Len(d) = 1 THEN NDivLimb(a, d[1], Len(a), << >>, 0)
  ELSE NDivLong(a, d, Len(a), [q |-> << >>, r |-> << >>])

(***************************************************************************)
(* Scalar types.  The three component types of the header and the types    *)
(* expressions over them are computed in: a short operand is promoted to   *)
(* int, and two operands are brought to their common type (the usual       *)
(* arithmetic conversions).                                                *)
(***************************************************************************)
Types == {"Half", "Single", "Double"}

TypeRank(T) == CASE T = "Half" -> 1 [] T = "Int" -> 1 [] T = "Single" -> 2 [] T = "Double" -> 3

Promote(T) == IF T = "Half" THEN "Int" ELSE T

Common(A, B) ==
  IF TypeRank(A) >= TypeRank(B) THEN Promote(A) ELSE Promote(B)

\* int is 32 bits wide, short 16
IntMax == (Pow2(30) - 1) * 2 + 1
IntMin == (-IntMax) - 1
ShortBits == 16
ShortMax == Pow2(ShortBits - 1) - 1
ShortMin == -Pow2(ShortBits - 1)

\* binary32 and binary64: significand width, largest exponent of the leading
\* bit, and the exponent of the last bit of a subnormal.
MantBits(P) == IF P = "Single" THEN 24 ELSE 53
MaxExp(P) == IF P = "Single" THEN 127 ELSE 1023
MinExp(P) == IF P = "Single" THEN -149 ELSE -1074

(***************************************************************************)
(* Scalar values.  An integer is [k |-> "int", v |-> n].  A floating-point *)
(* value is [k, s, m, e]: k in {"fin", "zero", "inf", "nan"}, s the sign   *)
(* bit, and for "fin" the value (-1)^s * m * 2^e with m odd, so that equal *)
(* numbers are equal records.                                              *)
(***************************************************************************)
IntV(n) == [k |-> "int", v |-> n]
FZero(s) == [k |-> "zero", s |-> s, m |-> << >>, e |-> 0]
FInf(s) == [k |-> "inf", s |-> s, m |-> << >>, e |-> 0]
FNaN == [k |-> "nan", s |-> 0, m |-> << >>, e |-> 0]

\* m * 2^e for m # 0, in canonical form
FFinTz(s, m, e, tz) == [k |-> "fin", s |-> s, m |-> NShr(m, tz), e |-> e + tz]
FFin(s, m, e) == FFinTz(s, m, e, NTz(m))

Xor(a, b) == IF a = b THEN 0 ELSE 1
MaxOf(a, b) == IF a >= b THEN a ELSE b
MinOf(a, b) == IF a <= b THEN a ELSE b

\* A result and whether it is exact (no IEEE exception was raised, no integer
\* quotient was truncated).
R(v, ok) == [v |-> v, ok |-> ok]

\* (-1)^s * q * 2^et, for q of no more than MantBits(P) bits and
\* et >= MinExp(P): an infinity when it lies above the largest finite value
FPack(P, s, q, et, exact) ==
  IF q = << >> THEN R(FZero(s), FALSE)
  ELSE IF et + NBitLen(q) - 1 > MaxExp(P) THEN R(FInf(s), FALSE)
  ELSE R(FFin(s, q, et), exact)

\* Round to nearest, ties to even: q the bits kept, rb the first bit dropped,
\* st whether anything below it is set.
FRoundUp(P, s, q, rb, st, et) ==
  FPack(P, s, IF rb = 1 /\ (st \/ NBit(q, 0) = 1) THEN NAdd(q, << 1 >>) ELSE q,
        et, rb = 0 /\ ~st)

\* m * 2^e with the sh low bits of m dropped
FRoundCut(P, s, m, e, sticky, sh) ==
  IF sh <= 0 THEN FPack(P, s, m, e, ~sticky)
  ELSE FRoundUp(P, s, NShr(m, sh), NBit(m, sh - 1),
                sticky \/ ~NLowZero(m, sh - 1), e + sh)

\* (-1)^s * (m * 2^e, plus a positive amount below 2^e when sticky), rounded to
\* format P, to nearest, ties to even; overflow gives an infinity.
FRound(P, s, m, e, sticky) ==
  IF m = << >> THEN R(FZero(s), ~sticky)
  ELSE FRoundCut(P, s, m, e, sticky,
                 MaxOf(e + NBitLen(m) - MantBits(P), MinExp(P)) - e)

FNeg(x) == IF x.k = "nan" THEN x ELSE [x EXCEPT !.s = 1 - x.s]

\* big + sml as [s, m, e, st] when sml lies wholly below the last bit big keeps
\* with four guard bits, K the shift that gives big those bits: sml only
\* decides the direction of rounding.
FAddFar(big, sml, K) ==
  [s |-> big.s,
   m |-> IF big.s = sml.s THEN NShl(big.m, K) ELSE NSub(NShl(big.m, K), << 1 >>),
   e |-> big.e - K, st |-> TRUE]

\* x + y as [s, m, e, st] from the aligned significands mx and my, c their
\* comparison
FAddAligned(x, y, mx, my, e, c) ==
  IF x.s = y.s THEN [s |-> x.s, m |-> NAdd(mx, my), e |-> e, st |-> FALSE]
  ELSE IF c = 0 THEN [s |-> 0, m |-> << >>, e |-> e, st |-> FALSE]
  ELSE IF c > 0 THEN [s |-> x.s, m |-> NSub(mx, my), e |-> e, st |-> FALSE]
  ELSE [s |-> y.s, m |-> NSub(my, mx), e |-> e, st |-> FALSE]

FAddNear(x, y, mx, my, e) == FAddAligned(x, y, mx, my, e, NCmp(mx, my))

\* hx and hy the exponents above the leading bits of x and y
FAddExact(P, x, y, hx, hy) ==
  IF MaxOf(hx, hy) - MinOf(hx, hy) > MantBits(P) + 4
  THEN IF hx >= hy
       THEN FAddFar(x, y, MantBits(P) + 4 - NBitLen(x.m))
       ELSE FAddFar(y, x, MantBits(P) + 4 - NBitLen(y.m))
  ELSE FAddNear(x, y, NShl(x.m, x.e - MinOf(x.e, y.e)),
                NShl(y.m, y.e - MinOf(x.e, y.e)), MinOf(x.e, y.e))

FRoundSum(P, t) == FRound(P, t.s, t.m, t.e, t.st)

\* x + y for finite nonzero x and y
FAddFin(P, x, y) ==
  FRoundSum(P, FAddExact(P, x, y, x.e + NBitLen(x.m), y.e + NBitLen(y.m)))

\* x + y in format P, for x and y of format P
FAdd(P, x, y) ==
  IF x.k = "nan" \/ y.k = "nan" THEN R(FNaN, TRUE)
  ELSE IF x.k = "inf"
    THEN IF y.k = "inf" /\ y.s # x.s THEN R(FNaN, FALSE) ELSE R(x, TRUE)
  ELSE IF y.k = "inf" THEN R(y, TRUE)
  ELSE IF x.k = "zero"
    THEN IF y.k = "zero" THEN R(FZero(IF x.s = 1 /\ y.s = 1 THEN 1 ELSE 0), TRUE)
         ELSE R(y, TRUE)
  ELSE IF y.k = "zero" THEN R(x, TRUE)
  ELSE FAddFin(P, x, y)

FMul(P, x, y) ==
  IF x.k = "nan" \/ y.k = "nan" THEN R(FNaN, TRUE)
  ELSE IF x.k = "inf" \/ y.k = "inf"
    THEN IF x.k = "zero" \/ y.k = "zero" THEN R(FNaN, FALSE)
         ELSE R(FInf(Xor(x.s, y.s)), TRUE)
  ELSE IF x.k = "zero" \/ y.k = "zero" THEN R(FZero(Xor(x.s, y.s)), TRUE)
  ELSE FRound(P, Xor(x.s, y.s), NMul(x.m, y.m), x.e + y.e, FALSE)

\* x / y from d = [q, r], the quotient and remainder of x.m * 2^k by y.m
FDivRound(P, x, y, d, k) ==
  FRound(P, Xor(x.s, y.s), d.q, x.e - y.e - k, d.r # << >>)

\* a quotient of at least MantBits + 2 bits, the rest in the sticky bit
FDivFin(P, x, y, k) == FDivRound(P, x, y, NDivMod(NShl(x.m, k), y.m), k)

FDiv(P, x, y) ==
  IF x.k = "nan" \/ y.k = "nan" THEN R(FNaN, TRUE)
  ELSE IF x.k = "inf"
    THEN IF y.k = "inf" THEN R(FNaN, FALSE) ELSE R(FInf(Xor(x.s, y.s)), TRUE)
  ELSE IF y.k = "inf" THEN R(FZero(Xor(x.s, y.s)), TRUE)
  ELSE IF y.k = "zero"
    THEN IF x.k = "zero" THEN R(FNaN, FALSE) ELSE R(FInf(Xor(x.s, y.s)), FALSE)
  ELSE IF x.k = "zero" THEN R(FZero(Xor(x.s, y.s)), TRUE)
  ELSE FDivFin(P, x, y, MaxOf(0, MantBits(P) + 2 + NBitLen(y.m) - NBitLen(x.m)))

\* operator== of the scalar type: a NaN equals nothing, the zeros are equal
FEq(x, y) ==
  IF x.k = "nan" \/ y.k = "nan" THEN FALSE
  ELSE IF x.k = "zero" /\ y.k = "zero" THEN TRUE
  ELSE x = y

AbsInt(n) == IF n < 0 THEN -n ELSE n

\* |n| for an int n
NMag(n) == IF n = IntMin THEN NShl(<< 1 >>, 31) ELSE NFromInt(AbsInt(n))

(***************************************************************************)
(* Expressions.  An evaluated expression is [v, ok, ub]: its value, whether *)
(* every step so far was exact, and whether the evaluation had undefined    *)
(* behaviour (signed int overflow, integer division by zero, a floating    *)
(* value converted to a short that cannot hold it).  A step with undefined *)
(* behaviour has no value of its own: the operation that contains it takes *)
(* one of UBOutcomes.                                                      *)
(***************************************************************************)
E(v, ok, ub) == [v |-> v, ok |-> ok, ub |-> ub]
Val(v) == E(v, TRUE, FALSE)
Undefined == E(IntV(0), FALSE, TRUE)

\* C++ integer division truncates toward zero
TruncDiv(x, y) ==
  IF (x < 0) = (y < 0) THEN AbsInt(x) \div AbsInt(y)
  ELSE -(AbsInt(x) \div AbsInt(y))

IntMulOverflows(x, y) ==
  /\ x # 0 /\ y # 0
  /\ ~(x = IntMin /\ y = 1) /\ ~(y = IntMin /\ x = 1)
  /\ \/ x = IntMin \/ y = IntMin
     \/ AbsInt(y) > IntMax \div AbsInt(x)

\* x op y on int
IntArith(op, x, y) ==
  CASE op = "add" ->
         IF (x > 0 /\ y > IntMax - x) \/ (x < 0 /\ y < IntMin - x)
         THEN Undefined ELSE Val(IntV(x + y))
    [] op = "sub" ->
         IF (y < 0 /\ x > IntMax + y) \/ (y > 0 /\ x < IntMin + y)
         THEN Undefined ELSE Val(IntV(x - y))
    [] op = "mul" ->
         IF IntMulOverflows(x, y) THEN Undefined ELSE Val(IntV(x * y))
    [] op = "div" ->
         IF y = 0 \/ (x = IntMin /\ y = -1) THEN Undefined
         ELSE E(IntV(TruncDiv(x, y)), x % AbsInt(y) = 0, FALSE)

\* a floating-point result as an evaluated expression
Flt(r) == E(r.v, r.ok, FALSE)

\* x op y on float or double
FArith(P, op, x, y) ==
  Flt(CASE op \in {"add", "sub"} -> FAdd(P, x, IF op = "sub" THEN FNeg(y) ELSE y)
        [] op = "mul" -> FMul(P, x, y)
        [] op = "div" -> FDiv(P, x, y))

\* The scalar v converted to type P: int to float or double, and float or
\* double to the other format (exact when widening).
Cv(P, v) ==
  IF P = "Int" THEN R(v, TRUE)
  ELSE IF v.k = "int"
    THEN IF v.v = 0 THEN R(FZero(0), TRUE)
         ELSE FRound(P, IF v.v < 0 THEN 1 ELSE 0, NMag(v.v), 0, FALSE)
  ELSE IF v.k = "fin" THEN FRound(P, v.s, v.m, v.e, FALSE)
  ELSE R(v, TRUE)

\* the evaluated expression r, reached by steps that were exact iff ok
After(r, ok) == E(r.v, ok /\ r.ok, r.ub)

\* a op b for the converted operands a and b of A and B
ArithIn(P, op, A, B, a, b) ==
  After(IF P = "Int" THEN IntArith(op, a.v.v, b.v.v) ELSE FArith(P, op, a.v, b.v),
        A.ok /\ B.ok /\ a.ok /\ b.ok)

\* A op B, computed in P
Arith(P, op, A, B) ==
  IF A.ub \/ B.ub THEN Undefined
  ELSE ArithIn(P, op, A, B, Cv(P, A.v), Cv(P, B.v))

NegateIn(A, a) == E(FNeg(a.v), A.ok /\ a.ok, FALSE)

\* -A, computed in P
Negate(P, A) ==
  IF A.ub THEN Undefined
  ELSE IF P = "Int"
       THEN IF A.v.v = IntMin THEN Undefined ELSE E(IntV(-A.v.v), A.ok, FALSE)
       ELSE NegateIn(A, Cv(P, A.v))

\* The value of T() for scalar type T
ZeroOf(T) == IF T = "Half" THEN IntV(0) ELSE FZero(0)

\* a == b on two scalars of one type
ScalarEq(a, b) == IF a.k = "int" THEN a.v = b.v ELSE FEq(a, b)

\* int -> short keeps the low 16 bits
WrapShort(n) ==
  IF n % Pow2(ShortBits) > ShortMax
  THEN (n % Pow2(ShortBits)) - Pow2(ShortBits) ELSE n % Pow2(ShortBits)

\* the int v as a short where it is one; exact says nothing was truncated
ShortOf(v, exact) ==
  IF v > ShortMax \/ v < ShortMin THEN Undefined ELSE E(IntV(v), exact, FALSE)

\* float / double -> short truncates toward zero and is undefined when the
\* truncated value is no short
FToShort(x) ==
  IF x.k = "zero" THEN Val(IntV(0))
  ELSE IF x.k # "fin" THEN Undefined
  ELSE IF NBitLen(x.m) + x.e > ShortBits THEN Undefined
  ELSE IF x.e >= 0
  THEN ShortOf((1 - 2 * x.s) * NToInt(NShl(x.m, x.e)), TRUE)
  ELSE ShortOf((1 - 2 * x.s) * NToInt(NShr(x.m, -x.e)), FALSE)

\* What an operation with undefined behaviour may leave in a component, or a
\* trap (SIGFPE on an integer division by zero).
UBOutcomes ==
  {[trap |-> TRUE, v |-> 0]} \cup
  {[trap |-> FALSE, v |-> n] : n \in {ShortMin, -1, 0, ShortMax}}

\* the outcome of an operation that has no undefined behaviour
NoUB == [trap |-> FALSE, v |-> 0]

\* A stored in a short from its conversion t, which may be undefined
StoreShort(A, t, u) ==
  IF t.ub THEN E(IntV(u.v), FALSE, TRUE) ELSE E(t.v, A.ok /\ t.ok, FALSE)

\* A stored in a float or double from its conversion c
StoreFloat(A, c) == E(c.v, A.ok /\ c.ok, FALSE)

\* The evaluated expression A converted to scalar type T, as an assignment to
\* a T or the binding of an argument to a const T& does; u is the outcome taken
\* when that is undefined.
Store(T, A, u) ==
  IF A.ub THEN E(Cv(Promote(T), IntV(u.v)).v, FALSE, TRUE)
  ELSE IF T = "Half"
    THEN IF A.v.k = "int"
         THEN E(IntV(WrapShort(A.v.v)), A.ok /\ WrapShort(A.v.v) = A.v.v, FALSE)
         ELSE StoreShort(A, FToShort(A.v), u)
  ELSE StoreFloat(A, Cv(T, A.v))

(***************************************************************************)
(* complex<T>: T storage[2], storage[0] the real and storage[1] the        *)
(* imaginary component.  Objects live in a heap of named slots, and an     *)
(* operator reaches its operands through their names, as the C++ operator  *)
(* reaches them through `this` and a const reference: receiver and operand *)
(* may be one object.  An operator takes and yields an execution [h, ok,   *)
(* ub]: the heap, and the two flags of the evaluation so far.              *)
(***************************************************************************)
Complex(T, re, im) == [ty |-> T, re |-> re, im |-> im]

\* complex_common(): storage{T(), T()}
complex_default(T) == Complex(T, ZeroOf(T), ZeroOf(T))

\* an execution that starts in heap h
Start(h) == [h |-> h, ok |-> TRUE, ub |-> FALSE]

\* storage[i] of the object o
Storage(o, i) == IF i = 0 THEN o.re ELSE o.im

\* storage[i] = A in the object this, A an evaluated expression of its type
SetStorage(r, this, i, A) ==
  [h |-> IF i = 0 THEN [r.h EXCEPT ![this].re = A.v]
         ELSE [r.h EXCEPT ![this].im = A.v],
   ok |-> r.ok /\ A.ok, ub |-> r.ub \/ A.ub]

\* the object complex<T>{A, B} with the flags of evaluating A and B: [c, ok, ub]
MakeComplex(T, A, B) ==
  [c |-> Complex(T, A.v, B.v), ok |-> A.ok /\ B.ok, ub |-> A.ub \/ B.ub]

\* complex_common(const T& re, const T& im = T()): storage{re, im}, each
\* argument converted to T where it is bound.  Yields [c, ok, ub].
complex_ctor(T, re, im, u) ==
  MakeComplex(T, Store(T, Val(re), u), Store(T, Val(im), u))

\* operator=(T re): storage[0] = re
operator_assign_T(r, this, re, u) == SetStorage(r, this, 0, Val(re))

\* storage[i] op= v, for v of scalar type tv: computed in the common type of
\* the component and v, and converted back to the component's type
CompoundAssign(r, this, i, op, v, tv, u) ==
  SetStorage(r, this, i,
             Store(r.h[this].ty,
                   Arith(Common(r.h[this].ty, tv), op,
                         Val(Storage(r.h[this], i)), Val(v)), u))

\* operator+=(T re): storage[0] += re
operator_plus_assign_T(r, this, re, u) ==
  CompoundAssign(r, this, 0, "add", re, r.h[this].ty, u)

\* operator-=(T re): storage[0] -= re
operator_minus_assign_T(r, this, re, u) ==
  CompoundAssign(r, this, 0, "sub", re, r.h[this].ty, u)

\* operator*=(T re): storage[0] *= re; storage[1] *= re
operator_mul_assign_T(r, this, re, u) ==
  CompoundAssign(CompoundAssign(r, this, 0, "mul", re, r.h[this].ty, u),
                 this, 1, "mul", re, r.h[this].ty, u)

\* operator/=(T re): storage[0] /= re; storage[1] /= re
operator_div_assign_T(r, this, re, u) ==
  CompoundAssign(CompoundAssign(r, this, 0, "div", re, r.h[this].ty, u),
                 this, 1, "div", re, r.h[this].ty, u)

\* storage[i] = (i = 0 ? rhs.real() : rhs.imag())
AssignFrom(r, this, i, rhs, u) ==
  SetStorage(r, this, i, Store(r.h[this].ty, Val(Storage(r.h[rhs], i)), u))

\* template operator=(const complex<U>& rhs):
\*   storage[0] = rhs.real(); storage[1] = rhs.imag()
operator_assign_complex(r, this, rhs, u) ==
  AssignFrom(AssignFrom(r, this, 0, rhs, u), this, 1, rhs, u)

\* storage[i] op= (i = 0 ? rhs.real() : rhs.imag())
CompoundAssignFrom(r, this, i, op, rhs, u) ==
  CompoundAssign(r, this, i, op, Storage(r.h[rhs], i), r.h[rhs].ty, u)

\* template operator+=(const complex<U>& rhs):
\*   storage[0] += rhs.real(); storage[1] += rhs.imag()
operator_plus_assign_complex(r, this, rhs, u) ==
  CompoundAssignFrom(CompoundAssignFrom(r, this, 0, "add", rhs, u),
                     this, 1, "add", rhs, u)

\* template operator-=(const complex<U>& rhs):
\*   storage[0] -= rhs.real(); storage[1] -= rhs.imag()
operator_minus_assign_complex(r, this, rhs, u) ==
  CompoundAssignFrom(CompoundAssignFrom(r, this, 0, "sub", rhs, u),
                     this, 1, "sub", rhs, u)

\* the scalar v as an operand
Operand(v) == Val(v)

\* a * c - b * d, in P
ProductReal(P, a, b, c, d) ==
  Arith(P, "sub", Arith(P, "mul", a, c), Arith(P, "mul", b, d))

\* a * d + b * c, in P
ProductImag(P, a, b, c, d) ==
  Arith(P, "add", Arith(P, "mul", a, d), Arith(P, "mul", b, c))

\* c * c + d * d, in the type of c and d
Denominator(PU, c, d) ==
  Arith(PU, "add", Arith(PU, "mul", c, c), Arith(PU, "mul", d, d))

\* (a * c + b * d) / denominator, in P
QuotientReal(P, a, b, c, d, denominator) ==
  Arith(P, "div", Arith(P, "add", Arith(P, "mul", a, c), Arith(P, "mul", b, d)),
        denominator)

\* (b * c - a * d) / denominator, in P
QuotientImag(P, a, b, c, d, denominator) ==
  Arith(P, "div", Arith(P, "sub", Arith(P, "mul", b, c), Arith(P, "mul", a, d)),
        denominator)

\* storage[1] = storage[0] * d + b * c, after storage[0] was assigned
MulImagInPlace(r, this, P, b, c, d, u) ==
  SetStorage(r, this, 1,
             Store(r.h[this].ty,
                   ProductImag(P, Operand(r.h[this].re), b, c, d), u))

\* operator*= as it would be with the new real part read back for the
\* imaginary one:
\*   storage[0] = a * c - b * d; storage[1] = storage[0] * d + b * c
operator_mul_assign_complex_in_place(r, this, rhs, u) ==
  MulImagInPlace(
    SetStorage(r, this, 0,
      Store(r.h[this].ty,
            ProductReal(Common(r.h[this].ty, r.h[rhs].ty),
                        Operand(r.h[this].re), Operand(r.h[this].im),
                        Operand(r.h[rhs].re), Operand(r.h[rhs].im)), u)),
    this, Common(r.h[this].ty, r.h[rhs].ty),
    Operand(r.h[this].im), Operand(r.h[rhs].re), Operand(r.h[rhs].im), u)

\* storage[0] = a * c - b * d; storage[1] = a * d + b * c, for the operands
\* a, b, c, d copied from the components beforehand, computed in P
MulAssign(r, this, P, a, b, c, d, u) ==
  SetStorage(
    SetStorage(r, this, 0, Store(r.h[this].ty, ProductReal(P, a, b, c, d), u)),
    this, 1, Store(r.h[this].ty, ProductImag(P, a, b, c, d), u))

\* template operator*=(const complex<U>& rhs):
\*   T a = storage[0]; T b = storage[1]; U c = rhs.real(); U d = rhs.imag();
\*   storage[0] = a * c - b * d; storage[1] = a * d + b * c
operator_mul_assign_complex(r, this, rhs, u) ==
  MulAssign(r, this, Common(r.h[this].ty, r.h[rhs].ty),
            Operand(r.h[this].re), Operand(r.h[this].im),
            Operand(r.h[rhs].re), Operand(r.h[rhs].im), u)

\* storage[i] = (i = 0 ? a * rhs.real() + b * rhs.imag()
\*                     : b * rhs.real() - a * rhs.imag()) / denominator
DivComponentByReference(r, this, i, rhs, P, a, b, denominator, u) ==
  SetStorage(r, this, i,
    Store(r.h[this].ty,
          IF i = 0
          THEN QuotientReal(P, a, b, Operand(r.h[rhs].re), Operand(r.h[rhs].im),
                            denominator)
          ELSE QuotientImag(P, a, b, Operand(r.h[rhs].re), Operand(r.h[rhs].im),
                            denominator), u))

DivAssignByReference(r, this, rhs, P, a, b, denominator, u) ==
  DivComponentByReference(
    DivComponentByReference(r, this, 0, rhs, P, a, b, denominator, u),
    this, 1, rhs, P, a, b, denominator, u)

\* operator/= as it would be with the operand read through the reference where
\* it is used, not copied to c and d first:
\*   storage[0] = (a * rhs.real() + b * rhs.imag()) / denominator;
\*   storage[1] = (b * rhs.real() - a * rhs.imag()) / denominator
operator_div_assign_complex_by_reference(r, this, rhs, u) ==
  DivAssignByReference(r, this, rhs, Common(r.h[this].ty, r.h[rhs].ty),
    Operand(r.h[this].re), Operand(r.h[this].im),
    Denominator(Promote(r.h[rhs].ty), Operand(r.h[rhs].re), Operand(r.h[rhs].im)),
    u)

\* storage[0] = (a * c + b * d) / denominator;
\* storage[1] = (b * c - a * d) / denominator, computed in P
DivAssign(r, this, P, a, b, c, d, denominator, u) ==
  SetStorage(
    SetStorage(r, this, 0,
               Store(r.h[this].ty, QuotientReal(P, a, b, c, d, denominator), u)),
    this, 1, Store(r.h[this].ty, QuotientImag(P, a, b, c, d, denominator), u))

\* template operator/=(const complex<U>& rhs):
\*   T a = storage[0]; T b = storage[1]; U c = rhs.real(); U d = rhs.imag();
\*   auto denominator = c * c + d * d;
\*   storage[0] = (a * c + b * d) / denominator;
\*   storage[1] = (b * c - a * d) / denominator
operator_div_assign_complex(r, this, rhs, u) ==
  DivAssign(r, this, Common(r.h[this].ty, r.h[rhs].ty),
    Operand(r.h[this].re), Operand(r.h[this].im),
    Operand(r.h[rhs].re), Operand(r.h[rhs].im),
    Denominator(Promote(r.h[rhs].ty), Operand(r.h[rhs].re), Operand(r.h[rhs].im)),
    u)

(***************************************************************************)
(* The three specializations complex<Half>, complex<float>, complex<double> *)
(* (lines 248-270).  Each derives from complex_common<T>, inherits its      *)
(* constructors with a using-declaration, and declares two converting      *)
(* constructors; none declares an operator= or names the base's in a       *)
(* using-declaration.                                                      *)
(***************************************************************************)
\* <<T, U>>: complex<T>::complex(const complex<U>&) is declared `explicit`
ExplicitCtors ==
  {<<"Half", "Single">>, <<"Half", "Double">>, <<"Single", "Double">>}

\* <<T, U>>: complex<T>::complex(const complex<U>&) is declared without it
ImplicitCtors ==
  {<<"Single", "Half">>, <<"Double", "Half">>, <<"Double", "Single">>}

\* the specializations as they would be with the base's assignment operators
\* made visible:  using complex_common<T>::operator=;
UsingDeclaredWithAssignment == {"complex_common", "operator="}

\* the base members a specialization names in a using-declaration
UsingDeclared == {"complex_common"}

\* What unqualified lookup of operator= in complex<T> finds.  The class's
\* implicitly declared copy assignment is always found; it hides the base's
\* operator= overloads unless a using-declaration names them.
AssignCandidates ==
  IF "operator=" \in UsingDeclared
  THEN {"copy", "operator=(T)", "operator=(complex<U>)"}
  ELSE {"copy"}

\* an implicit conversion complex<U> -> complex<T> exists
ImplicitlyConvertible(T, U) == T = U \/ <<T, U>> \in ImplicitCtors

\* a converting constructor that would forward the real part only:
\*   complex_common(other.real())
converting_ctor_real_only(T, other, u) ==
  complex_ctor(T, other.re, ZeroOf(other.ty), u)

\* complex<T>::complex(const complex<U>& other):
\*   complex_common(other.real(), other.imag())
converting_ctor(T, other, u) == complex_ctor(T, other.re, other.im, u)

\* the object c, the value of a constructor call, put in slot dst
Bind(r, dst, c) ==
  [h |-> [r.h EXCEPT ![dst] = c.c], ok |-> r.ok /\ c.ok, ub |-> r.ub \/ c.ub]

\* the implicitly declared copy constructor and copy assignment of complex<T>
copy(r, dst, src) == [r EXCEPT !.h[dst] = r.h[src]]

\* The initialization  complex<T> dst(src)  from a complex<U> src.
ConvertExpr(r, dst, src, u) ==
  IF r.h[dst].ty = r.h[src].ty THEN copy(r, dst, src)
  ELSE Bind(r, dst, converting_ctor(r.h[dst].ty, r.h[src], u))

\* The expression  x = v  for a complex<T> x and a T v.
AssignScalarExpr(r, this, v, u) ==
  IF "operator=(T)" \in AssignCandidates
  THEN operator_assign_T(r, this, v, u)
  ELSE \* v -> complex<T>(v, T()) by the inherited constructor, then the copy
       Bind(r, this, complex_ctor(r.h[this].ty, v, ZeroOf(r.h[this].ty), u))

\* Whether the expression  x = y  is well-formed for a complex<T> x and a
\* complex<U> y.
AssignComplexCompiles(T, U) ==
  \/ "operator=(complex<U>)" \in AssignCandidates
  \/ ImplicitlyConvertible(T, U)

\* The expression  x = y  where it is well-formed.
AssignComplexExpr(r, this, rhs, u) ==
  IF r.h[this].ty = r.h[rhs].ty THEN copy(r, this, rhs)
  ELSE IF "operator=(complex<U>)" \in AssignCandidates
  THEN operator_assign_complex(r, this, rhs, u)
  ELSE Bind(r, this, converting_ctor(r.h[this].ty, r.h[rhs], u))

(***************************************************************************)
(* The free operators (lines 297-392).  Each takes its operands by const   *)
(* reference and returns a complex<T> by value; the slot dst holds the     *)
(* function's local `result`, which is what it returns.                    *)
(***************************************************************************)
\* operator-(const complex<T>& val): complex<T>(-val.real(), -val.imag())
operator_neg(r, dst, val, u) ==
  Bind(r, dst,
       MakeComplex(r.h[val].ty,
         Store(r.h[val].ty, Negate(Promote(r.h[val].ty), Val(r.h[val].re)), u),
         Store(r.h[val].ty, Negate(Promote(r.h[val].ty), Val(r.h[val].im)), u)))

\* operator-(const complex<T>& lhs, const T& rhs), with the operands in the
\* other order:  complex<T> result = lhs; return result -= rhs
operator_minus_complex_T(r, dst, lhs, rhs, u) ==
  operator_minus_assign_T(copy(r, dst, rhs), dst, lhs, u)

\* operator-(const T& lhs, const complex<T>& rhs):
\*   complex<T> result = -rhs; return result += lhs
operator_minus_T_complex(r, dst, lhs, rhs, u) ==
  operator_plus_assign_T(operator_neg(r, dst, rhs, u), dst, lhs, u)

\* operator*(const complex<T>& lhs, const complex<T>& rhs):
\*   complex<T> result = lhs; return result *= rhs
operator_mul(r, dst, lhs, rhs, u) ==
  operator_mul_assign_complex(copy(r, dst, lhs), dst, rhs, u)

\* operator/ as a copy of operator* with the operator left unchanged:
\*   complex<T> result = lhs; return result *= rhs
operator_div_as_mul(r, dst, lhs, rhs, u) ==
  operator_mul_assign_complex(copy(r, dst, lhs), dst, rhs, u)

\* operator/(const complex<T>& lhs, const complex<T>& rhs):
\*   complex<T> result = lhs; return result /= rhs
operator_div(r, dst, lhs, rhs, u) ==
  operator_div_assign_complex(copy(r, dst, lhs), dst, rhs, u)

\* operator==(const complex<T>& lhs, const complex<T>& rhs)
operator_eq(lhs, rhs) == ScalarEq(lhs.re, rhs.re) /\ ScalarEq(lhs.im, rhs.im)

\* operator==(const complex<T>& lhs, const T& rhs):
\*   (lhs.real() == rhs) && (lhs.imag() == T())
operator_eq_complex_T(lhs, rhs) ==
  ScalarEq(lhs.re, rhs) /\ ScalarEq(lhs.im, ZeroOf(lhs.ty))

\* operator==(T, complex) as it would be comparing the real part only
operator_eq_T_complex_real_only(lhs, rhs) == ScalarEq(lhs, rhs.re)

\* operator==(const T& lhs, const complex<T>& rhs):
\*   (lhs == rhs.real()) && (T() == rhs.imag())
operator_eq_T_complex(lhs, rhs) ==
  ScalarEq(lhs, rhs.re) /\ ScalarEq(ZeroOf(rhs.ty), rhs.im)

(***************************************************************************)
(* The state: a heap of four complex objects, a scalar, and the record of  *)
(* what was executed.                                                      *)
(*   heap.x  a complex<T>, the receiver of the member operators            *)
(*   heap.y  a complex<U>, their operand                                   *)
(*   heap.t  the complex<T> a free operator or a conversion returned       *)
(*   heap.r  the complex<U> a conversion back returned                     *)
(*   s       a scalar of type T                                            *)
(*   lit     the double literals x, y and s were constructed from          *)
(*   hist    the operations executed, oldest first: [op, lhs, rhs, ok, ub, *)
(*           res], with ok and ub the flags of its evaluation and res what *)
(*           a comparison returned                                         *)
(*   pre     the heap before the last operation                            *)
(*   status  "ok", or "trapped" once an operation has trapped              *)
(***************************************************************************)
VARIABLES heap, s, lit, hist, pre, status

vars == << heap, s, lit, hist, pre, status >>

\* the longest sequence of member operations, of free operators, of conversions
MaxOps == 1
MaxExpr == 2
MaxConv == 2

\* the double literal n * 2^e
Lit(n, e) ==
  IF n = 0 THEN FZero(0)
  ELSE FRound("Double", IF n < 0 THEN 1 ELSE 0, NFromInt(AbsInt(n)), e, FALSE).v

Last == hist[Len(hist)]
Did(op) == hist # << >> /\ Last.op = op

\* the heap and the scalar once x, y and s are constructed
Launch(T, U, l, cx, cy, sc) ==
  /\ ~cx.ub /\ ~cy.ub /\ ~sc.ub
  /\ heap = [x |-> cx.c, y |-> cy.c,
             t |-> complex_default(T), r |-> complex_default(U)]
  /\ s = sc.v
  /\ lit = l
  /\ hist = << >>
  /\ pre = heap
  /\ status = "ok"

\* The program up to its first operation:
\*   complex<T> x(l.x[1], l.x[2]); complex<U> y(l.y[1], l.y[2]);
\*   complex<T> t; complex<U> r; T s = l.s;
Construct(T, U, l) ==
  Launch(T, U, l, complex_ctor(T, l.x[1], l.x[2], NoUB),
         complex_ctor(U, l.y[1], l.y[2], NoUB), Store(T, Val(l.s), NoUB))

\* One operation: q is the execution it gives for the outcome u of its
\* undefined behaviour, if it has any.  A trap ends the program.
Commit(op, lhs, rhs, u, q) ==
  /\ q.ub \/ u = NoUB
  /\ heap' = IF q.ub /\ u.trap THEN heap ELSE q.h
  /\ status' = IF q.ub /\ u.trap THEN "trapped" ELSE "ok"
  /\ hist' = Append(hist, [op |-> op, lhs |-> lhs, rhs |-> rhs,
                           ok |-> q.ok, ub |-> q.ub, res |-> FALSE])
  /\ pre' = heap
  /\ UNCHANGED << s, lit >>

\* One comparison, which returned b.
Observe(op, lhs, rhs, b) ==
  /\ hist' = Append(hist, [op |-> op, lhs |-> lhs, rhs |-> rhs,
                           ok |-> TRUE, ub |-> FALSE, res |-> b])
  /\ pre' = heap
  /\ UNCHANGED << heap, s, lit, status >>

(***************************************************************************)
(* Spec: the member operators, applied to x = complex<T>(l.x) with operand *)
(* y = complex<U>(l.y), x itself, or the scalar s, every object constructed *)
(* from double literals as in  complex<Half>(0.5, 0.5).                    *)
(***************************************************************************)
XSLits == {[x |-> << Lit(1, 0), Lit(2, 0) >>, s |-> Lit(7, 0)],
           [x |-> << Lit(3, -1), Lit(5, -1) >>, s |-> Lit(0, 0)],
           [x |-> << Lit(200, 0), Lit(1, 0) >>, s |-> Lit(7, 0)]}
YLits == {<< Lit(3, 0), Lit(4, 0) >>, << Lit(1, -1), Lit(1, -1) >>,
          << Lit(0, 0), Lit(0, 0) >>, << Lit(200, 0), Lit(-1, 0) >>}

Init ==
  \E T \in Types, U \in Types, xs \in XSLits, yl \in YLits :
    Construct(T, U, [x |-> xs.x, y |-> yl, s |-> xs.s])

AssignScalar ==
  /\ status = "ok" /\ Len(hist) < MaxOps
  /\ \E u \in UBOutcomes :
       Commit("assign_T", "x", "s", u, AssignScalarExpr(Start(heap), "x", s, u))

PlusAssignScalar ==
  /\ status = "ok" /\ Len(hist) < MaxOps
  /\ \E u \in UBOutcomes :
       Commit("plus_assign_T", "x", "s", u,
              operator_plus_assign_T(Start(heap), "x", s, u))

MinusAssignScalar ==
  /\ status = "ok" /\ Len(hist) < MaxOps
  /\ \E u \in UBOutcomes :
       Commit("minus_assign_T", "x", "s", u,
              operator_minus_assign_T(Start(heap), "x", s, u))

MulAssignScalar ==
  /\ status = "ok" /\ Len(hist) < MaxOps
  /\ \E u \in UBOutcomes :
       Commit("mul_assign_T", "x", "s", u,
              operator_mul_assign_T(Start(heap), "x", s, u))

DivAssignScalar ==
  /\ status = "ok" /\ Len(hist) < MaxOps
  /\ \E u \in UBOutcomes :
       Commit("div_assign_T", "x", "s", u,
              operator_div_assign_T(Start(heap), "x", s, u))

PlusAssignComplex ==
  /\ status = "ok" /\ Len(hist) < MaxOps
  /\ \E rhs \in {"x", "y"}, u \in UBOutcomes :
       Commit("plus_assign_complex", "x", rhs, u,
              operator_plus_assign_complex(Start(heap), "x", rhs, u))

MinusAssignComplex ==
  /\ status = "ok" /\ Len(hist) < MaxOps
  /\ \E rhs \in {"x", "y"}, u \in UBOutcomes :
       Commit("minus_assign_complex", "x", rhs, u,
              operator_minus_assign_complex(Start(heap), "x", rhs, u))

MulAssignComplex ==
  /\ status = "ok" /\ Len(hist) < MaxOps
  /\ \E rhs \in {"x", "y"}, u \in UBOutcomes :
       Commit("mul_assign_complex", "x", rhs, u,
              operator_mul_assign_complex(Start(heap), "x", rhs, u))

DivAssignComplex ==
  /\ status = "ok" /\ Len(hist) < MaxOps
  /\ \E rhs \in {"x", "y"}, u \in UBOutcomes :
       Commit("div_assign_complex", "x", rhs, u,
              operator_div_assign_complex(Start(heap), "x", rhs, u))

Next ==
  \/ AssignScalar
  \/ PlusAssignScalar
  \/ MinusAssignScalar
  \/ MulAssignScalar
  \/ DivAssignScalar
  \/ PlusAssignComplex
  \/ MinusAssignComplex
  \/ MulAssignComplex
  \/ DivAssignComplex

Spec == Init /\ [][Next]_vars


(***************************************************************************)
(* SpecFree: the free operators, applied to x, y and s of one type T; the  *)
(* value an operator returns is kept in t, so that expressions nest:       *)
(*   t = s - y;   t = x * y;   t = t / y;   x == s;   s == x               *)
(***************************************************************************)
FreeCases ==
  {[x |-> << Lit(1, 0), Lit(2, 0) >>, y |-> << Lit(3, 0), Lit(4, 0) >>, s |-> Lit(5, 0)],
   [x |-> << Lit(5, 0), Lit(0, 0) >>, y |-> << Lit(2, 0), Lit(3, 0) >>, s |-> Lit(5, 0)],
   [x |-> << Lit(5, 0), Lit(1, 0) >>, y |-> << Lit(2, 0), Lit(3, 0) >>, s |-> Lit(5, 0)],
   [x |-> << Lit(200, 0), Lit(0, 0) >>, y |-> << Lit(200, 0), Lit(0, 0) >>, s |-> Lit(0, 0)],
   [x |-> << Lit(16777215, 0), Lit(0, 0) >>, y |-> << Lit(3, 0), Lit(0, 0) >>, s |-> Lit(1, -1)],
   [x |-> << FNaN, Lit(0, 0) >>, y |-> << Lit(1, 0), Lit(1, 0) >>, s |-> FNaN],
   [x |-> << Lit(0, 0), FZero(1) >>, y |-> << Lit(-32768, 0), Lit(3, 0) >>, s |-> Lit(0, 0)],
   [x |-> << Lit(1, 0), Lit(2, 0) >>, y |-> << Lit(0, 0), Lit(0, 0) >>, s |-> Lit(5, 0)],
   [x |-> << Lit(1, -1), Lit(-3, -2) >>, y |-> << Lit(1, -1), Lit(1, -1) >>, s |-> Lit(-1, 0)]}

InitFree == \E T \in Types, l \in FreeCases : Construct(T, T, l)

\* t = s - y
ScalarMinus ==
  /\ status = "ok" /\ Len(hist) < MaxExpr
  /\ \E u \in UBOutcomes :
       Commit("minus_T_complex", "s", "y", u,
              operator_minus_T_complex(Start(heap), "t", s, "y", u))

\* t = x * y  or  t = t * y
Multiply ==
  /\ status = "ok" /\ Len(hist) < MaxExpr
  /\ \E lhs \in {"x", "t"}, u \in UBOutcomes :
       Commit("mul", lhs, "y", u, operator_mul(Start(heap), "t", lhs, "y", u))

\* t = x / y  or  t = t / y
Divide ==
  /\ status = "ok" /\ Len(hist) < MaxExpr
  /\ \E lhs \in {"x", "t"}, u \in UBOutcomes :
       Commit("div", lhs, "y", u, operator_div(Start(heap), "t", lhs, "y", u))

\* x == s
EqComplexScalar ==
  /\ status = "ok" /\ Len(hist) < MaxExpr
  /\ Observe("eq_complex_T", "x", "s", operator_eq_complex_T(heap.x, s))

\* s == x
EqScalarComplex ==
  /\ status = "ok" /\ Len(hist) < MaxExpr
  /\ Observe("eq_T_complex", "s", "x", operator_eq_T_complex(s, heap.x))

NextFree ==
  \/ ScalarMinus
  \/ Multiply
  \/ Divide
  \/ EqComplexScalar
  \/ EqScalarComplex

SpecFree == InitFree /\ [][NextFree]_vars

(***************************************************************************)
(* SpecConv: conversions between a complex<U> y and the complex<T> t, and  *)
(* back from t to the complex<U> r, in the three forms a program can write *)
(* them:                                                                   *)
(*   complex<T> t(y);   direct-initialization: every constructor is usable *)
(*   complex<T> t = y;  copy-initialization: no explicit constructor is    *)
(*   t = y;             assignment                                         *)
(* A form that does not compile is no step of any program.                 *)
(***************************************************************************)
ConvLits ==
  {<< Lit(3, -1), Lit(5, -1) >>,
   << Lit(-32768, 0), Lit(32767, 0) >>,
   << Lit(16777215, 104), Lit(1, -149) >>,
   << FZero(1), FInf(0) >>,
   << FNaN, Lit(1, 0) >>,
   << Lit(16777217, 0), Lit(13421773, -27) >>,
   << Lit(40000, 0), Lit(-1, 0) >>,
   << Lit(1, 1000), Lit(1, -1074) >>}

InitConv ==
  \E T \in Types, U \in Types, yl \in ConvLits :
    Construct(T, U, [x |-> << Lit(1, 0), Lit(2, 0) >>, y |-> yl, s |-> Lit(0, 0)])

\* what is converted into dst: y into t, and t into r
Source(dst) == IF dst = "t" THEN "y" ELSE "t"

\* src holds a value the program computed: y always, t once it was converted to
Produced(src) == src = "y" \/ \E i \in DOMAIN hist : hist[i].lhs = src

\* complex<T> dst(src)
ExplicitConvert ==
  /\ status = "ok" /\ Len(hist) < MaxConv
  /\ \E dst \in {"t", "r"}, u \in UBOutcomes :
       /\ Produced(Source(dst))
       /\ Commit("explicit_convert", dst, Source(dst), u,
                 ConvertExpr(Start(heap), dst, Source(dst), u))

\* complex<T> dst = src
ImplicitConvert ==
  /\ status = "ok" /\ Len(hist) < MaxConv
  /\ \E dst \in {"t", "r"}, u \in UBOutcomes :
       /\ Produced(Source(dst))
       /\ ImplicitlyConvertible(heap[dst].ty, heap[Source(dst)].ty)
       /\ Commit("implicit_convert", dst, Source(dst), u,
                 ConvertExpr(Start(heap), dst, Source(dst), u))

\* dst = src
AssignComplex ==
  /\ status = "ok" /\ Len(hist) < MaxConv
  /\ \E dst \in {"t", "r"}, u \in UBOutcomes :
       /\ Produced(Source(dst))
       /\ AssignComplexCompiles(heap[dst].ty, heap[Source(dst)].ty)
       /\ Commit("assign_complex", dst, Source(dst), u,
                 AssignComplexExpr(Start(heap), dst, Source(dst), u))

NextConv ==
  \/ ExplicitConvert
  \/ ImplicitConvert
  \/ AssignComplex

SpecConv == InitConv /\ [][NextConv]_vars

(***************************************************************************)
(* The rules the operators are to follow, written on the components of the *)
(* operands X = (a, b) and Y = (c, d): each is computed in the type C++    *)
(* gives the expression and stored in the receiver's component type.       *)
(***************************************************************************)
\* the value of the expression A as a component of a complex<T>
Stored(T, A) == Store(T, A, NoUB).v

\* (a + c, b + d)
SumRule(X, Y) ==
  Complex(X.ty,
    Stored(X.ty, Arith(Common(X.ty, Y.ty), "add", Val(X.re), Val(Y.re))),
    Stored(X.ty, Arith(Common(X.ty, Y.ty), "add", Val(X.im), Val(Y.im))))

\* (a - c, b - d)
DifferenceRule(X, Y) ==
  Complex(X.ty,
    Stored(X.ty, Arith(Common(X.ty, Y.ty), "sub", Val(X.re), Val(Y.re))),
    Stored(X.ty, Arith(Common(X.ty, Y.ty), "sub", Val(X.im), Val(Y.im))))

\* A * B in P
Times(P, A, B) == Arith(P, "mul", Val(A), Val(B))

\* (a*c - b*d, a*d + b*c)
ProductRule(X, Y) ==
  Complex(X.ty,
    Stored(X.ty, Arith(Common(X.ty, Y.ty), "sub",
                       Times(Common(X.ty, Y.ty), X.re, Y.re),
                       Times(Common(X.ty, Y.ty), X.im, Y.im))),
    Stored(X.ty, Arith(Common(X.ty, Y.ty), "add",
                       Times(Common(X.ty, Y.ty), X.re, Y.im),
                       Times(Common(X.ty, Y.ty), X.im, Y.re))))

\* c*c + d*d
MagnitudeSquared(Y) ==
  Arith(Promote(Y.ty), "add", Times(Promote(Y.ty), Y.re, Y.re),
        Times(Promote(Y.ty), Y.im, Y.im))

\* c*c + d*d != 0
DenominatorNonZero(Y) ==
  /\ ~MagnitudeSquared(Y).ub
  /\ ~ScalarEq(MagnitudeSquared(Y).v, ZeroOf(Y.ty))

\* ((a*c + b*d) / den, (b*c - a*d) / den)
QuotientOver(X, Y, den) ==
  Complex(X.ty,
    Stored(X.ty, Arith(Common(X.ty, Y.ty), "div",
                       Arith(Common(X.ty, Y.ty), "add",
                             Times(Common(X.ty, Y.ty), X.re, Y.re),
                             Times(Common(X.ty, Y.ty), X.im, Y.im)), den)),
    Stored(X.ty, Arith(Common(X.ty, Y.ty), "div",
                       Arith(Common(X.ty, Y.ty), "sub",
                             Times(Common(X.ty, Y.ty), X.im, Y.re),
                             Times(Common(X.ty, Y.ty), X.re, Y.im)), den)))

\* ((a*c + b*d)/(c*c + d*d), (b*c - a*d)/(c*c + d*d))
QuotientRule(X, Y) == QuotientOver(X, Y, MagnitudeSquared(Y))

\* both components are finite numbers
Finite(X) == X.re.k \in {"int", "fin", "zero"} /\ X.im.k \in {"int", "fin", "zero"}

\* the operation before the last one
Previous == hist[Len(hist) - 1]

\* t holds (x * y) / y
MulThenDiv ==
  /\ Len(hist) >= 2
  /\ Previous.op = "mul" /\ Previous.lhs = "x"
  /\ Last.op = "div" /\ Last.lhs = "t"

\* the double nearest to n / d
Ratio(n, d) == FDiv("Double", Lit(n, 0), Lit(d, 0)).v

(***************************************************************************)
(* C1.  x = v for a complex<T> x = (a, b) and a T v leaves x = (v, b).     *)
(***************************************************************************)
\* C1: after the assignment x = s, x is (s, b) with b the imaginary component
\* x had before; the imaginary component is not reset to zero.
C1_AssignScalarKeepsImag ==
  Did("assign_T") => heap.x = Complex(pre.x.ty, s, pre.x.im)

C3_CompoundMultiply ==
  (Did("mul_assign_complex") /\ Last.rhs = "y" /\ ~Last.ub) =>
    /\ heap.x = ProductRule(pre.x, pre.y)
    /\ heap.y = pre.y

\* complex<double>(1, 2) *= complex<double>(3, 4) gave (-5, 10)
C3_Witness ==
  /\ Did("mul_assign_complex") /\ Last.rhs = "y"
  /\ pre.x = Complex("Double", Lit(1, 0), Lit(2, 0))
  /\ pre.y = Complex("Double", Lit(3, 0), Lit(4, 0))
  /\ heap.x = Complex("Double", Lit(-5, 0), Lit(10, 0))

(***************************************************************************)
(* C4.  x /= y.                                                            *)
(***************************************************************************)
\* C4: x /= y leaves x = ((a*c + b*d)/(c*c + d*d), (b*c - a*d)/(c*c + d*d)),
\* also when c*c + d*d is zero: no error path is taken and the two quotients
\* are stored.  complex<double>(1, 2) / complex<double>(3, 4) is (0.44, 0.08).
C4_CompoundDivide ==
  (Did("div_assign_complex") /\ Last.rhs = "y") =>
    /\ status = "ok" /\ ~Last.ub
    /\ heap.x = QuotientRule(pre.x, pre.y)
    /\ (/\ pre.x = Complex("Double", Lit(1, 0), Lit(2, 0))
        /\ pre.y = Complex("Double", Lit(3, 0), Lit(4, 0)))
         => heap.x = Complex("Double", Ratio(11, 25), Ratio(2, 25))

(***************************************************************************)
(* C5.  s - z.                                                             *)
(***************************************************************************)
\* C5: s - y returns (s - c, -d) for y = (c, d) and leaves y as it was;
\* 5 - complex<float>(2, 3) is (3, -3).
C5_ScalarMinusComplex ==
  Did("minus_T_complex") =>
    /\ ~Last.ub
    /\ heap.t = Complex(pre.y.ty,
                        Stored(pre.y.ty, Arith(Promote(pre.y.ty), "sub",
                                               Val(s), Val(pre.y.re))),
                        Stored(pre.y.ty, Negate(Promote(pre.y.ty), Val(pre.y.im))))
    /\ heap.y = pre.y
    /\ (/\ heap.y = Complex("Single", Lit(2, 0), Lit(3, 0))
        /\ s = Lit(5, 0))
         => heap.t = Complex("Single", Lit(3, 0), Lit(-3, 0))

\* 5 - complex<float>(2, 3) gave (3, -3)
C5_Witness ==
  /\ Did("minus_T_complex")
  /\ pre.y = Complex("Single", Lit(2, 0), Lit(3, 0))
  /\ s = Lit(5, 0)
  /\ heap.t = Complex("Single", Lit(3, 0), Lit(-3, 0))

(***************************************************************************)
(* C6.  Mixed-precision accumulation.                                      *)
(***************************************************************************)
\* C6: complex<float>(1.5, 2.5) += complex<Half>(0.5, 0.5) leaves the receiver
\* (2.0, 3.0).
C6_MixedAccumulation ==
  (/\ Did("plus_assign_complex") /\ Last.rhs = "y"
   /\ heap.x.ty = "Single" /\ heap.y.ty = "Half"
   /\ lit.x = << Lit(3, -1), Lit(5, -1) >>
   /\ lit.y = << Lit(1, -1), Lit(1, -1) >>)
    => heap.x = Complex("Single", Lit(2, 0), Lit(3, 0))

(***************************************************************************)
(* C7.  (a * b) / b == a.                                                  *)
(***************************************************************************)
\* C7 as stated: for x and y = (c, d) with finite components and
\* c*c + d*d != 0, (x * y) / y == x, also when the products exceed the range
\* of the component type.
C7_MulDivRestores ==
  (/\ MulThenDiv /\ DenominatorNonZero(heap.y)
   /\ Finite(heap.x) /\ Finite(heap.y))
    => status = "ok" /\ operator_eq(heap.t, heap.x)

\* C7 as amended: for x and y with finite components and c*c + d*d != 0,
\* (x * y) / y == x whenever every arithmetic step and every store of the
\* multiplication and of the division is exact and has defined behaviour.
C7_MulDivRestoresWhenExact ==
  (/\ MulThenDiv /\ DenominatorNonZero(heap.y)
   /\ Finite(heap.x) /\ Finite(heap.y)
   /\ Previous.ok /\ ~Previous.ub /\ Last.ok /\ ~Last.ub)
    => status = "ok" /\ operator_eq(heap.t, heap.x)

\* (1, 2) * (3, 4) / (3, 4) was computed exactly, in double
C7_Witness ==
  /\ MulThenDiv /\ Previous.ok /\ Last.ok
  /\ heap.x = Complex("Double", Lit(1, 0), Lit(2, 0))
  /\ heap.y = Complex("Double", Lit(3, 0), Lit(4, 0))
  /\ heap.t = heap.x

(***************************************************************************)
(* C8.  complex == scalar.                                                 *)
(***************************************************************************)
\* C8: x == s is true iff the real component of x equals s and the imaginary
\* one equals T(); s == x gives the same; complex<T>(5, 0) == T(5) is true and
\* complex<T>(5, 1) == T(5) is false.
C8_ScalarEquality ==
  \A i \in DOMAIN hist :
    hist[i].op \in {"eq_complex_T", "eq_T_complex"} =>
      /\ hist[i].res <=> (ScalarEq(heap.x.re, s) /\ ScalarEq(heap.x.im, ZeroOf(heap.x.ty)))
      /\ (lit.x = << Lit(5, 0), Lit(0, 0) >> /\ lit.s = Lit(5, 0)) => hist[i].res
      /\ (lit.x = << Lit(5, 0), Lit(1, 0) >> /\ lit.s = Lit(5, 0)) => ~hist[i].res

\* complex<T>(5, 0) == T(5) and T(5) == complex<T>(5, 0) were both true
C8_Witness ==
  /\ Len(hist) = 2
  /\ hist[1].op = "eq_complex_T" /\ hist[2].op = "eq_T_complex"
  /\ lit.x = << Lit(5, 0), Lit(0, 0) >> /\ lit.s = Lit(5, 0)
  /\ hist[1].res /\ hist[2].res

(***************************************************************************)
(* C9.  Round trip across precisions.                                      *)
(***************************************************************************)
\* C9: for y of a narrower precision than t, once t was converted from y and
\* r back from t, both components of r are those of y (the same value: a NaN
\* comes back a NaN), and no conversion on the way was inexact or undefined.
C9_RoundTrip ==
  (/\ TypeRank(heap.t.ty) > TypeRank(heap.y.ty)
   /\ \E i \in DOMAIN hist : hist[i].lhs = "r")
    => /\ heap.r.re = heap.y.re /\ heap.r.im = heap.y.im
       /\ \A i \in DOMAIN hist : hist[i].ok /\ ~hist[i].ub

\* complex<float>(FLT_MAX, 2^-149) went to double implicitly and came back
C9_Witness ==
  /\ Len(hist) = 2
  /\ hist[1].op = "implicit_convert" /\ hist[1].lhs = "t"
  /\ hist[2].op = "explicit_convert" /\ hist[2].lhs = "r"
  /\ heap.y = Complex("Single", Lit(16777215, 104), Lit(1, -149))
  /\ heap.t = Complex("Double", Lit(16777215, 104), Lit(1, -149))
  /\ heap.r = heap.y

(***************************************************************************)
(* C10.  The operand is the receiver.                                      *)
(***************************************************************************)
\* C10: where it has defined behaviour, x *= x leaves (a*a - b*b, a*b + b*a),
\* x /= x leaves ((a*a + b*b)/(a*a + b*b), (b*a - a*b)/(a*a + b*b)) when
\* a*a + b*b != 0, x += x leaves (a + a, b + b) and x -= x leaves
\* (a - a, b - b), for the components a, b of x before the operation.
C10_SelfOperand ==
  (hist # << >> /\ Last.rhs = "x" /\ ~Last.ub) =>
    /\ Last.op = "plus_assign_complex" => heap.x = SumRule(pre.x, pre.x)
    /\ Last.op = "minus_assign_complex" => heap.x = DifferenceRule(pre.x, pre.x)
    /\ Last.op = "mul_assign_complex" => heap.x = ProductRule(pre.x, pre.x)
    /\ (Last.op = "div_assign_complex" /\ DenominatorNonZero(pre.x))
         => heap.x = QuotientRule(pre.x, pre.x)

\* complex<double>(1, 2) /= itself gave (1, 0)
C10_Witness ==
  /\ Did("div_assign_complex") /\ Last.rhs = "x"
  /\ pre.x = Complex("Double", Lit(1, 0), Lit(2, 0))
  /\ heap.x = Complex("Double", Lit(1, 0), Lit(0, 0))
====
